---------------------------- MODULE Spec2Model ----------------------------
(***************************************************************************)
(* A model of the wake-on-connect game-server orchestrator:                *)
(*   - the sidecar proxy (src/proxy_service/main.py), TCP and UDP;         *)
(*   - the container orchestrators (src/services/docker_manager.py and     *)
(*     src/node-agent/app/core/docker_manager.py);                         *)
(*   - the webhook wake path (src/backend/app/services/lifecycle.py);      *)
(*   - the lifecycle controller: idle sweep, billing, deposits and the     *)
(*     wake routes (src/backend/app/services/lifecycle.py,                 *)
(*     src/backend/app/billing.py, src/routers, src/backend/app/routers).  *)
(* Each subsystem has its own specification (SpecTcp, SpecUdp, SpecOrch,   *)
(* SpecWake, SpecLife, SpecPort) over the shared variables; Spec is        *)
(* SpecTcp.                                                                *)
(***************************************************************************)
EXTENDS Integers, Sequences, FiniteSets, TLC

VARIABLES
    tcp,        \* TCP proxy: session -> the state of handle_tcp_client
    targetUp,   \* TCP proxy: the target accepts TCP connections
    now,        \* TCP proxy: the event loop's clock, in seconds
    udp,        \* UDP proxy: the UDPRelay of the one client address
    udpTask,    \* UDP proxy: datagram -> its handle_udp_datagram task
    udpHold,    \* UDP proxy: datagram -> the send_wake_and_hold task it began
    udpEnd,     \* UDP proxy: the create_datagram_endpoint tasks
    udpUp,      \* UDP proxy: the target is reachable
    docker,     \* orchestrator: the container engine
    server,     \* orchestrator: the Server rows
    opLog,      \* orchestrator: the last two orchestrator calls (history)
    wk,         \* wake path: sessions, webhook requests, backend, container
    life,       \* lifecycle: users, servers, transactions, the billing pass
    pa          \* port allocation: deploys in flight, host ports, public_port

vars == <<tcp, targetUp, now, udp, udpTask, udpHold, udpEnd, udpUp,
          docker, server, opLog, wk, life, pa>>

tcpVars == <<tcp, targetUp, now>>
udpVars == <<udp, udpTask, udpHold, udpEnd, udpUp>>
orchVars == <<docker, server, opLog>>
\* What each subsystem's actions leave alone.
notTcp == <<udpVars, orchVars, wk, life, pa>>
notUdp == <<tcpVars, orchVars, wk, life, pa>>
notOrch == <<tcpVars, udpVars, wk, life, pa>>
notWake == <<tcpVars, udpVars, orchVars, life, pa>>
notLife == <<tcpVars, udpVars, orchVars, wk, pa>>
notPort == <<tcpVars, udpVars, orchVars, wk, life>>

---------------------------------------------------------------------------
(* Bounds and program constants *)

\* Bytes each side of a TCP session sends: byte i is the number i.
MaxBytes == 2
\* reader.read(8192), scaled down so that a read can return part of the data.
ReadSize == 1
\* Seconds the clock advances in one Tick, and the clock's last value.
ClockStep == 30
MaxClock == 60
\* HOLD_TIMEOUT, seconds (the default of the environment variable).
HOLD_TIMEOUT == 60

\* Sessions share nothing but the target: one carries every byte-level case.
Sessions == {"s1"}

---------------------------------------------------------------------------
(* Sequences *)

Min(a, b) == IF a <= b THEN a ELSE b

SeqTo(n) == [i \in 1..n |-> i]

Take(q, n) == SubSeq(q, 1, Min(n, Len(q)))

Drop(q, n) == SubSeq(q, Min(n, Len(q)) + 1, Len(q))

IsPrefix(p, q) == Len(p) <= Len(q) /\ SubSeq(q, 1, Len(p)) = p

Range(q) == {q[i] : i \in 1..Len(q)}

---------------------------------------------------------------------------
(* The TCP proxy: handle_tcp_client and relay_tcp_data                      *)
(*                                                                         *)
(* pc of a session:                                                        *)
(*   idle     no connection yet                                            *)
(*   probe    accepted; awaiting check_target_reachable (line 90)          *)
(*   wake     target unreachable; awaiting send_wake_signal (line 94)      *)
(*   connect  target reachable; awaiting open_connection (line 149)        *)
(*   relay    in relay_tcp_data (line 152)                                 *)
(*   closed   the handler closed the client connection and returned        *)
(*   aborted  an exception left handle_tcp_client; nothing was closed      *)
(*                                                                         *)
(* Lines 96-101 run without suspension once send_wake_signal returns.      *)
(* client_writer is an asyncio.StreamWriter, which has no method           *)
(* set_tcp_nodelay: line 101 raises AttributeError inside the try of line  *)
(* 100, the handler of line 139 closes the client, and the hold loop of    *)
(* lines 103-137 is never entered.                                         *)
(***************************************************************************)

\* The methods of asyncio.StreamWriter (the type start_server hands over).
StreamWriterMethods ==
    {"write", "writelines", "write_eof", "can_write_eof", "close",
     "is_closing", "wait_closed", "get_extra_info", "drain", "start_tls"}

\* Whether client_writer.<method>(...) can be called (line 101).
WriterHasMethod(method) == method \in StreamWriterMethods

\* The outcomes of send_wake_signal that return (lines 37-45).
WakeReturns == {"ok", "non200", "client_error"}

\* Every way the webhook can fail.
WakeFailures == {"non200", "client_error", "timeout"}

NewSession ==
    [pc |-> "idle", woke |-> FALSE, hooks |-> 0, hook |-> "none",
     start |-> -1, closedAt |-> -1, buffer |-> <<>>,
     cSent |-> 0, cHalf |-> FALSE, cRd |-> <<>>, cEof |-> FALSE,
     cWClosed |-> FALSE, cRecv |-> <<>>,
     tState |-> "none", tSent |-> 0, tRd |-> <<>>, tEof |-> FALSE,
     tWClosed |-> FALSE, tRecv |-> <<>>,
     fwdCT |-> "none", fwdTC |-> "none"]

\* client_writer.close(): the transport stops reading and the reader gets EOF.
CloseClient(r, t) ==
    [r EXCEPT !.cWClosed = TRUE, !.cEof = TRUE, !.pc = "closed", !.closedAt = t]

\* Mutant: the data is put before what was written earlier.
WriteOutReordered(out, data) == data \o out

\* writer.write(data): what the peer has received after it (line 68).
WriteOut(out, data) == out \o data

\* asyncio.start_server accepts a connection and starts handle_tcp_client.
Accept(s) ==
    /\ tcp[s].pc = "idle"
    /\ tcp' = [tcp EXCEPT ![s].pc = "probe"]
    /\ UNCHANGED <<targetUp, now, notTcp>>

\* The client writes its next byte; a closed transport receives nothing.
ClientSend(s) ==
    /\ tcp[s].pc # "idle"
    /\ ~tcp[s].cHalf
    /\ tcp[s].cSent < MaxBytes
    /\ tcp' = [tcp EXCEPT
                 ![s].cSent = @ + 1,
                 ![s].cRd = IF tcp[s].cWClosed THEN @
                            ELSE Append(@, tcp[s].cSent + 1)]
    /\ UNCHANGED <<targetUp, now, notTcp>>

\* The client shuts down its sending direction: the reader gets EOF.
ClientHalfClose(s) ==
    /\ tcp[s].pc # "idle"
    /\ ~tcp[s].cHalf
    /\ tcp' = [tcp EXCEPT ![s].cHalf = TRUE, ![s].cEof = TRUE]
    /\ UNCHANGED <<targetUp, now, notTcp>>

\* Mutant: the webhook is sent whatever the probe found.
AlwaysWake(target_reachable) == TRUE

\* if not target_reachable (line 92).
NeedsWake(target_reachable) == ~target_reachable

\* Lines 90-94 and 146-147: the first probe decides the path; hooks counts the
\* calls of send_wake_signal (line 94).
InitialProbe(s) ==
    /\ tcp[s].pc = "probe"
    /\ tcp' = [tcp EXCEPT
                 ![s].pc = IF NeedsWake(targetUp) THEN "wake" ELSE "connect",
                 ![s].hooks = IF NeedsWake(targetUp) THEN @ + 1 ELSE @,
                 ![s].woke = ~targetUp]
    /\ UNCHANGED <<targetUp, now, notTcp>>

\* Lines 96-145 from the return of send_wake_signal on.
EnterHold(r, t) ==
    LET h == [r EXCEPT !.start = t, !.buffer = <<>>]
    IN  IF WriterHasMethod("set_tcp_nodelay")
        THEN [h EXCEPT !.pc = "hold"]
        ELSE CloseClient(h, t)

\* send_wake_signal returns True or False (lines 37-45); the caller ignores it.
WakeSignalReturns(s) ==
    /\ tcp[s].pc = "wake"
    /\ \E outcome \in WakeReturns :
         tcp' = [tcp EXCEPT ![s] = EnterHold([tcp[s] EXCEPT !.hook = outcome], now)]
    /\ UNCHANGED <<targetUp, now, notTcp>>

\* The POST exceeds its 10 s: asyncio.TimeoutError is no ClientError, leaves
\* send_wake_signal, and leaves handle_tcp_client at line 94, outside any try.
WakeSignalTimesOut(s) ==
    /\ tcp[s].pc = "wake"
    /\ tcp' = [tcp EXCEPT ![s].hook = "timeout", ![s].pc = "aborted"]
    /\ UNCHANGED <<targetUp, now, notTcp>>

\* Lines 148-159: open the backend connection, or close the client.
DirectConnect(s) ==
    /\ tcp[s].pc = "connect"
    /\ tcp' = [tcp EXCEPT ![s] =
                 IF targetUp
                 THEN [@ EXCEPT !.pc = "relay", !.tState = "open",
                                !.fwdCT = "run", !.fwdTC = "run"]
                 ELSE CloseClient(@, now)]
    /\ UNCHANGED <<targetUp, now, notTcp>>

\* Mutant: closing the writer leaves the reader of the connection as it was.
ReaderUntouched(eof) == eof

\* writer.close() in the finally of forward (line 73) closes the transport of
\* the connection, whose StreamReader is fed EOF: the other copy loop, reading
\* from it, ends.
ReaderAtEof(eof) == TRUE

\* forward(client_reader, target_writer), one turn of its loop (lines 62-73).
ForwardCT(s) ==
    LET r == tcp[s] IN
    /\ r.pc = "relay"
    /\ r.fwdCT = "run"
    /\ \/ /\ r.cRd # <<>>
          /\ r.tState # "reset"
          /\ tcp' = [tcp EXCEPT ![s].cRd = Drop(@, ReadSize),
                                ![s].tRecv = WriteOut(@, Take(r.cRd, ReadSize))]
       \/ /\ r.cRd # <<>>
          /\ r.tState = "reset"
          /\ tcp' = [tcp EXCEPT ![s].cRd = Drop(@, ReadSize),
                                ![s].fwdCT = "done",
                                ![s].tWClosed = TRUE,
                                ![s].tEof = ReaderAtEof(@)]
       \/ /\ r.cRd = <<>>
          /\ r.cEof
          /\ tcp' = [tcp EXCEPT ![s].fwdCT = "done",
                                ![s].tWClosed = TRUE,
                                ![s].tEof = ReaderAtEof(@)]
    /\ UNCHANGED <<targetUp, now, notTcp>>

\* forward(target_reader, client_writer), one turn of its loop (lines 62-73).
ForwardTC(s) ==
    LET r == tcp[s] IN
    /\ r.pc = "relay"
    /\ r.fwdTC = "run"
    /\ \/ /\ r.tRd # <<>>
          /\ r.tState # "reset"
          /\ tcp' = [tcp EXCEPT ![s].tRd = Drop(@, ReadSize),
                                ![s].cRecv = WriteOut(@, Take(r.tRd, ReadSize))]
       \/ /\ r.tState = "reset"
          /\ tcp' = [tcp EXCEPT ![s].fwdTC = "done",
                                ![s].cWClosed = TRUE,
                                ![s].cEof = ReaderAtEof(@)]
       \/ /\ r.tRd = <<>>
          /\ r.tEof
          /\ r.tState # "reset"
          /\ tcp' = [tcp EXCEPT ![s].fwdTC = "done",
                                ![s].cWClosed = TRUE,
                                ![s].cEof = ReaderAtEof(@)]
    /\ UNCHANGED <<targetUp, now, notTcp>>

\* Lines 82-84: both copy loops are over; both writers are closed.
RelayDone(s) ==
    /\ tcp[s].pc = "relay"
    /\ tcp[s].fwdCT = "done"
    /\ tcp[s].fwdTC = "done"
    /\ tcp' = [tcp EXCEPT ![s] =
                 [CloseClient(@, now) EXCEPT !.tWClosed = TRUE, !.tEof = TRUE]]
    /\ UNCHANGED <<targetUp, now, notTcp>>

\* The target writes its next byte; a closed transport receives nothing.
TargetSend(s) ==
    /\ tcp[s].tState = "open"
    /\ tcp[s].tSent < MaxBytes
    /\ tcp' = [tcp EXCEPT
                 ![s].tSent = @ + 1,
                 ![s].tRd = IF tcp[s].tWClosed THEN @
                            ELSE Append(@, tcp[s].tSent + 1)]
    /\ UNCHANGED <<targetUp, now, notTcp>>

\* The target shuts down its sending direction.
TargetHalfClose(s) ==
    /\ tcp[s].tState = "open"
    /\ tcp' = [tcp EXCEPT ![s].tState = "half", ![s].tEof = TRUE]
    /\ UNCHANGED <<targetUp, now, notTcp>>

\* The backend connection is reset: reads and writes on it raise.
TargetReset(s) ==
    /\ tcp[s].tState \in {"open", "half"}
    /\ ~tcp[s].tWClosed
    /\ tcp' = [tcp EXCEPT ![s].tState = "reset"]
    /\ UNCHANGED <<targetUp, now, notTcp>>

\* The game container starts or stops listening.
TargetFlips ==
    /\ targetUp' = ~targetUp
    /\ UNCHANGED <<tcp, now, notTcp>>

Tick ==
    /\ now + ClockStep <= MaxClock
    /\ now' = now + ClockStep
    /\ UNCHANGED <<tcp, targetUp, notTcp>>

InitTcp ==
    /\ tcp = [s \in Sessions |-> NewSession]
    /\ targetUp = FALSE
    /\ now = 0

NextTcp ==
    \/ \E s \in Sessions :
         \/ Accept(s)
         \/ ClientSend(s)
         \/ ClientHalfClose(s)
         \/ InitialProbe(s)
         \/ WakeSignalReturns(s)
         \/ WakeSignalTimesOut(s)
         \/ DirectConnect(s)
         \/ ForwardCT(s)
         \/ ForwardTC(s)
         \/ RelayDone(s)
         \/ TargetSend(s)
         \/ TargetHalfClose(s)
         \/ TargetReset(s)
    \/ TargetFlips
    \/ Tick

---------------------------------------------------------------------------
(* Claims about the TCP proxy *)

\* The session started while the target was unreachable (line 92).
Woke(s) == tcp[s].woke

\* Seconds between start_time (line 97) and the close of the client.
HeldFor(s) == tcp[s].closedAt - tcp[s].start

\* The session has a backend connection, or had one.
Bridged(s) == tcp[s].tState # "none"

\* C1 (as claimed): a session that starts while the target is unreachable
\* is held and then bridged with its bytes written to the target in order:
\* when such a session is over before the hold window has passed (so it did
\* not time out), the target has received exactly the bytes the client sent.
C1_BufferedBytesReachTarget ==
    \A s \in Sessions :
        (Woke(s) /\ tcp[s].pc = "closed" /\ HeldFor(s) < HOLD_TIMEOUT)
            => tcp[s].tRecv = SeqTo(tcp[s].cSent)

\* C2 (as claimed): a session that started while the target was unreachable
\* and never got a backend connection is closed only once the time since
\* start_time has reached HOLD_TIMEOUT.
C2_ClosedOnlyAtHoldTimeout ==
    \A s \in Sessions :
        (Woke(s) /\ tcp[s].pc = "closed" /\ ~Bridged(s))
            => HeldFor(s) >= HOLD_TIMEOUT

\* C3 (as claimed): a failed wake webhook neither strands the session (the
\* handler gone, the client left open) nor ends it before the hold window
\* is over.
C3_WebhookFailureKeepsSession ==
    \A s \in Sessions :
        tcp[s].hook \in WakeFailures
            => /\ tcp[s].pc # "aborted"
               /\ (tcp[s].pc = "closed" /\ ~Bridged(s)) => HeldFor(s) >= HOLD_TIMEOUT

\* The target never closed or reset the backend connection of s.
TargetOpen(s) == tcp[s].tState = "open"

\* C6 (as claimed): a session accepted while the target is reachable is a
\* direct connection: while the target keeps its side open, the session is
\* not closed and every byte the target has sent has reached the client or
\* waits in the proxy, also after the client has finished sending.
C6_ByteIdenticalToDirect ==
    \A s \in Sessions :
        TargetOpen(s)
            => /\ tcp[s].pc # "closed"
               /\ tcp[s].cRecv \o tcp[s].tRd = SeqTo(tcp[s].tSent)

\* C6 (amended): in a session accepted while the target is reachable, each
\* side receives a prefix of what the other sent, unmodified and in order;
\* nothing is lost while neither side has closed; every byte a side sent
\* before it closed its sending direction first is delivered; and a closed
\* session has both connections closed.
C6_RelayUntilEitherSideCloses ==
    \A s \in Sessions :
        LET r == tcp[s] IN
        Bridged(s) =>
            /\ ~Woke(s)
            /\ IsPrefix(r.tRecv, SeqTo(r.cSent))
            /\ IsPrefix(r.cRecv, SeqTo(r.tSent))
            /\ (r.pc = "relay" /\ ~r.cEof /\ ~r.tEof /\ TargetOpen(s))
                   => /\ r.tRecv \o r.cRd = SeqTo(r.cSent)
                      /\ r.cRecv \o r.tRd = SeqTo(r.tSent)
            /\ (TargetOpen(s) /\ r.fwdCT = "done")
                   => (r.cHalf /\ r.tRecv = SeqTo(r.cSent))
            /\ (r.tState = "half" /\ ~r.cHalf /\ r.fwdTC = "done")
                   => r.cRecv = SeqTo(r.tSent)
            /\ r.pc = "closed" => (r.cWClosed /\ r.tWClosed)

\* C6 witness: the client sent all its bytes and half-closed, the target
\* received them all, answered, and the session is closed on both sides.
C6_Witness ==
    \E s \in Sessions :
        /\ ~Woke(s) /\ tcp[s].pc = "closed" /\ tcp[s].cHalf
        /\ tcp[s].cSent = MaxBytes /\ tcp[s].tRecv = SeqTo(MaxBytes)
        /\ Len(tcp[s].cRecv) >= 1

\* The first probe of the session has returned (line 90).
Probed(s) == tcp[s].pc \notin {"idle", "probe"}

\* C24: a TCP session sends the wake webhook if and only if its first probe
\* found the target unreachable, and at most once; a session whose first
\* probe succeeded goes on to the backend connection and sends no webhook.
C24_WebhookIffUnreachable ==
    \A s \in Sessions :
        /\ tcp[s].hooks <= 1
        /\ ~Probed(s) => tcp[s].hooks = 0
        /\ Probed(s) => (tcp[s].hooks = 1 <=> Woke(s))
        /\ (Probed(s) /\ ~Woke(s)) =>
               /\ tcp[s].hook = "none"
               /\ tcp[s].pc \in {"connect", "relay", "closed"}
        /\ tcp[s].pc = "wake" => Woke(s)

\* A session whose probe failed has sent its one webhook and got the answer,
\* the target having come up since.
C24_Witness ==
    \E s \in Sessions :
        /\ Woke(s)
        /\ tcp[s].hooks = 1
        /\ tcp[s].hook = "ok"
        /\ targetUp

\* The session is suspended in await send_wake_signal() (line 94): the POST
\* has been sent and neither its answer nor its timeout has come.
WebhookOutstanding(s) == tcp[s].pc = "wake"

\* start_time has been taken (line 97): the hold window is being counted.
HoldStarted(s) == tcp[s].start >= 0

\* C25: the webhook is fire-and-forget: while the request of a session is
\* outstanding the session has already started its hold window (buffering,
\* probing, counting), so that a target that comes up is bridged without
\* waiting for the answer.
C25_HoldDoesNotWaitForWebhook ==
    \A s \in Sessions : WebhookOutstanding(s) => HoldStarted(s)

\* One side of a bridged session has closed: the client or the target shut
\* its connection down, or the backend connection was reset.
SideClosed(s) ==
    /\ tcp[s].pc = "relay"
    /\ \/ tcp[s].cHalf
       \/ tcp[s].tState \in {"half", "reset"}

\* The handler has returned with both writers closed.
BothClosed(s) ==
    /\ tcp[s].pc = "closed"
    /\ tcp[s].cWClosed
    /\ tcp[s].tWClosed

\* C27: once either side of a bridged session has closed, the session comes
\* to CLOSED with the client connection and the backend connection both
\* closed; no bridged session stays half-open for ever.
C27_BridgedSessionCloses ==
    \A s \in Sessions : SideClosed(s) ~> BothClosed(s)

\* A bridged session that ended closed on both sides after the target alone
\* had shut its connection down.
C27_Witness ==
    \E s \in Sessions :
        /\ BothClosed(s)
        /\ tcp[s].tState = "half"
        /\ ~tcp[s].cHalf

\* The session found the target unreachable and is being held: it is past
\* line 92 and the handler has not closed it.
Waking(s) == Woke(s) /\ tcp[s].pc # "closed"

\* The client has closed its connection: client_reader is at EOF.
ClientLeft(s) == tcp[s].cHalf

\* C28: a held session whose client closes its connection is cancelled: it
\* comes to CLOSED, and no backend connection is opened for the client that
\* left.
C28_HeldSessionCancelledOnClientClose ==
    \A s \in Sessions :
        (Waking(s) /\ ClientLeft(s)) ~>
            (tcp[s].pc = "closed" /\ tcp[s].tState = "none")

\* Something failed in the session: the webhook, the backend connection
\* (refused at line 149), or a copy loop (reads and writes on a reset
\* connection raise).
SessionFailed(s) ==
    \/ tcp[s].hook \in WakeFailures
    \/ tcp[s].pc = "closed" /\ ~Woke(s) /\ ~Bridged(s)
    \/ tcp[s].tState = "reset"

\* C29: a failure in a session closes that session: its client connection is
\* closed rather than left open.
C29_FailingSessionIsClosed ==
    \A s \in Sessions :
        SessionFailed(s) ~> (tcp[s].pc = "closed" /\ tcp[s].cWClosed)

---------------------------------------------------------------------------
(* The UDP proxy: UDPProxyProtocol, handle_udp_datagram and UDPRelay        *)
(*                                                                         *)
(* One client address sends the datagrams 1, 2, ... in this order and they *)
(* arrive in this order.  datagram_received (line 250) starts one task per *)
(* datagram; the tasks start in arrival order and suspend only at an       *)
(* await.  udp.tgtLog is what was handed to sendto for the target, in      *)
(* order.                                                                  *)
(*                                                                         *)
(* pc of a handle_udp_datagram task:                                       *)
(*   none     the datagram has not arrived                                 *)
(*   ready    the task is created and has not run yet                      *)
(*   probing  awaiting check_target_reachable (line 228)                   *)
(*   done     returned                                                     *)
(*   crashed  an exception left the task                                   *)
(* pc of a send_wake_and_hold task:                                        *)
(*   none, wake (line 171), probe (line 180), sleep (line 184),            *)
(*   done (flush_buffer called), timeout (line 178), aborted (exception)   *)
(***************************************************************************)

\* Datagrams the client sends.
MaxDatagrams == 3
\* Datagrams the target sends back.
MaxReplies == 1

Datagrams == 1..MaxDatagrams

\* A create_datagram_endpoint task is named after the task that started it:
\* d for the handler of datagram d, MaxDatagrams + d for the hold task that
\* the handler of d started.
Endpoints == 1..(2 * MaxDatagrams)

NewTask == [pc |-> "none", up |-> FALSE]

NewHold == [pc |-> "none", start |-> -1, hook |-> "none"]

\* UDPRelay.__init__ (lines 163-167), before the first datagram.
NewRelay ==
    [exists |-> FALSE, buffer |-> <<>>, transport |-> 0,
     tgtLog |-> <<>>, cliRecv |-> 0, clock |-> 0]

\* Mutant: flush_buffer starts no endpoint.
FlushBufferNever(ends, e, transport) == ends

\* flush_buffer (lines 188-218): with no target transport, start a task that
\* creates the endpoint; the task has not run when flush_buffer returns.
FlushBuffer(ends, e, transport) ==
    IF transport = 0 THEN [ends EXCEPT ![e] = "pending"] ELSE ends

\* UDPProxyProtocol.datagram_received (lines 249-250).
DatagramArrives(d) ==
    /\ udpTask[d].pc = "none"
    /\ \A e \in Datagrams : e < d => udpTask[e].pc # "none"
    /\ udpTask' = [udpTask EXCEPT ![d].pc = "ready"]
    /\ UNCHANGED <<udp, udpHold, udpEnd, udpUp, notUdp>>

\* handle_udp_datagram up to its first await (lines 222-227, 236-237).
HandlerStart(d) ==
    /\ udpTask[d].pc = "ready"
    /\ \A e \in Datagrams : e < d => udpTask[e].pc \notin {"none", "ready"}
    /\ IF udp.transport = 0
       THEN /\ udpTask' = [udpTask EXCEPT ![d].pc = "probing"]
            /\ udp' = [udp EXCEPT !.exists = TRUE]
       ELSE /\ udpTask' = [udpTask EXCEPT ![d].pc = "done"]
            /\ udp' = [udp EXCEPT !.exists = TRUE, !.tgtLog = Append(@, d)]
    /\ UNCHANGED <<udpHold, udpEnd, udpUp, notUdp>>

\* handle_udp_datagram after check_target_reachable returns (lines 228-235).
\* Line 235 calls sendto on relay.target_transport, which is None unless an
\* endpoint started earlier was completed during the probe.
HandlerProbed(d) ==
    /\ udpTask[d].pc = "probing"
    /\ IF ~udpUp
       THEN /\ udp' = [udp EXCEPT !.buffer = Append(@, d)]
            /\ udpHold' = IF Len(udp.buffer) = 0
                          THEN [udpHold EXCEPT ![d].pc = "wake"]
                          ELSE udpHold
            /\ udpTask' = [udpTask EXCEPT ![d].pc = "done"]
            /\ UNCHANGED udpEnd
       ELSE /\ udpEnd' = FlushBuffer(udpEnd, d, udp.transport)
            /\ IF udp.transport = 0
               THEN /\ udpTask' = [udpTask EXCEPT ![d] = [pc |-> "crashed", up |-> TRUE]]
                    /\ UNCHANGED udp
               ELSE /\ udpTask' = [udpTask EXCEPT ![d] = [pc |-> "done", up |-> TRUE]]
                    /\ udp' = [udp EXCEPT !.tgtLog = Append(@, d)]
            /\ UNCHANGED udpHold
    /\ UNCHANGED <<udpUp, notUdp>>

\* send_wake_and_hold: send_wake_signal returns; start_time is taken and the
\* first pass of the loop reaches its probe (lines 171-180).
HoldWakeReturns(d) ==
    /\ udpHold[d].pc = "wake"
    /\ \E outcome \in WakeReturns :
         udpHold' = [udpHold EXCEPT ![d] =
                       [pc |-> "probe", start |-> udp.clock, hook |-> outcome]]
    /\ UNCHANGED <<udp, udpTask, udpEnd, udpUp, notUdp>>

\* send_wake_and_hold: the POST exceeds its 10 s and asyncio.TimeoutError
\* leaves the task at line 171.
HoldWakeTimesOut(d) ==
    /\ udpHold[d].pc = "wake"
    /\ udpHold' = [udpHold EXCEPT ![d].pc = "aborted", ![d].hook = "timeout"]
    /\ UNCHANGED <<udp, udpTask, udpEnd, udpUp, notUdp>>

\* send_wake_and_hold: check_target_reachable returns (lines 180-186).
HoldProbed(d) ==
    /\ udpHold[d].pc = "probe"
    /\ IF udpUp
       THEN /\ udpHold' = [udpHold EXCEPT ![d].pc = "done"]
            /\ udpEnd' = FlushBuffer(udpEnd, MaxDatagrams + d, udp.transport)
       ELSE /\ udpHold' = [udpHold EXCEPT ![d].pc = "sleep"]
            /\ UNCHANGED udpEnd
    /\ UNCHANGED <<udp, udpTask, udpUp, notUdp>>

\* send_wake_and_hold: the sleep ends and the loop tests the time
\* (lines 184, 174-178).
HoldSleepEnds(d) ==
    /\ udpHold[d].pc = "sleep"
    /\ udpHold' = [udpHold EXCEPT ![d].pc =
                     IF udp.clock - udpHold[d].start >= HOLD_TIMEOUT
                     THEN "timeout" ELSE "probe"]
    /\ UNCHANGED <<udp, udpTask, udpEnd, udpUp, notUdp>>

\* TargetProtocol.connection_made (lines 197-201).
EndpointMade(e) ==
    /\ udpEnd[e] = "pending"
    /\ udpEnd' = [udpEnd EXCEPT ![e] = "made"]
    /\ udp' = [udp EXCEPT !.transport = e,
                          !.tgtLog = @ \o udp.buffer,
                          !.buffer = <<>>]
    /\ UNCHANGED <<udpTask, udpHold, udpUp, notUdp>>

\* The target answers on a backend socket it got a datagram from;
\* TargetProtocol.datagram_received sends it to the client (lines 203-204).
TargetReplies ==
    /\ udp.transport # 0
    /\ udp.tgtLog # <<>>
    /\ udp.cliRecv < MaxReplies
    /\ udp' = [udp EXCEPT !.cliRecv = @ + 1]
    /\ UNCHANGED <<udpTask, udpHold, udpEnd, udpUp, notUdp>>

\* The target starts or stops answering the probe.
UdpTargetFlips ==
    /\ udpUp' = ~udpUp
    /\ UNCHANGED <<udp, udpTask, udpHold, udpEnd, notUdp>>

UdpTick ==
    /\ udp.clock + ClockStep <= MaxClock
    /\ udp' = [udp EXCEPT !.clock = @ + ClockStep]
    /\ UNCHANGED <<udpTask, udpHold, udpEnd, udpUp, notUdp>>

InitUdp ==
    /\ udp = NewRelay
    /\ udpTask = [d \in Datagrams |-> NewTask]
    /\ udpHold = [d \in Datagrams |-> NewHold]
    /\ udpEnd = [e \in Endpoints |-> "none"]
    /\ udpUp = FALSE

NextUdp ==
    \/ \E d \in Datagrams :
         \/ DatagramArrives(d)
         \/ HandlerStart(d)
         \/ HandlerProbed(d)
         \/ HoldWakeReturns(d)
         \/ HoldWakeTimesOut(d)
         \/ HoldProbed(d)
         \/ HoldSleepEnds(d)
    \/ \E e \in Endpoints : EndpointMade(e)
    \/ TargetReplies
    \/ UdpTargetFlips
    \/ UdpTick

---------------------------------------------------------------------------
(* Claims about the UDP proxy *)

\* The handler of datagram d is over.
HandlerOver(d) == udpTask[d].pc \in {"done", "crashed"}

\* C4 (as claimed): the datagrams handed to the target are in the order the
\* client sent them: no later datagram is sent before an earlier one.
C4_DatagramsInSendOrder ==
    \A i, j \in 1..Len(udp.tgtLog) :
        i < j => udp.tgtLog[i] < udp.tgtLog[j]

\* C5 (as claimed): when the probe made for the first datagram of the client
\* finds the target reachable, that datagram is sent to the target.
C5_FirstDatagramForwarded ==
    (HandlerOver(1) /\ udpTask[1].up) => 1 \in Range(udp.tgtLog)

\* A send_wake_and_hold task of the session is running (lines 169-186).
HoldActive(hold) == \E d \in Datagrams : hold[d].pc \in {"wake", "probe", "sleep"}

\* A task started by flush_buffer is about to create the backend socket and
\* send the queue (lines 213-218).
FlushPending(ends) == \E e \in Endpoints : ends[e] = "pending"

\* C38 (as claimed): whenever a datagram is queued because the target is
\* unreachable, a wake-and-hold task of the session is running or is
\* started by that datagram, so that the queue is sent once the target is
\* reachable.
C38_QueuedDatagramHasHoldTask ==
    [][\A d \in Datagrams :
         udp'.buffer = Append(udp.buffer, d) =>
             (HoldActive(udpHold') \/ FlushPending(udpEnd'))]_vars

\* The backend sockets of the session: the endpoints whose connection_made
\* has run (lines 197-198).  Nothing in the relay closes one.
BackendSockets(ends) == {e \in Endpoints : ends[e] = "made"}

\* C39 (as claimed): under every interleaving of the hold task and the
\* handler tasks, the session has at most one backend socket.
C39_OneBackendSocket == Cardinality(BackendSockets(udpEnd)) <= 1

---------------------------------------------------------------------------
(* The orchestrators: SidecarManager (src/services/docker_manager.py) and   *)
(* DockerManager (src/node-agent/app/core/docker_manager.py)                *)
(*                                                                         *)
(* docker.cont maps a container to its status in the engine; a container   *)
(* is named <<"game", id>> or <<"proxy", id>> and its name stands for its  *)
(* id.  server holds the Server rows: state "none" before the row exists   *)
(* and "deleted" after it is gone.  Every call of the engine can fail with *)
(* an APIError, which the model chooses freely.  opLog keeps the last two  *)
(* events, to state what two calls in succession do.                       *)
(***************************************************************************)

\* Server ids in use.
MaxServers == 1
\* game_container.stop(timeout=30), seconds.
STOP_TIMEOUT == 30

Ids == 1..MaxServers

Containers == {"game", "proxy"} \X Ids

\* A container id that was never set (None).
NullId == <<"null", 0>>

NewRow ==
    [mgr |-> "none", state |-> "none",
     game_container_id |-> NullId, proxy_container_id |-> NullId,
     network |-> FALSE]

NoDocker ==
    [cont |-> [c \in Containers |-> "absent"], net |-> {}, vol |-> {}]

NoOp ==
    [op |-> "none", mgr |-> "none", id |-> 0, ok |-> FALSE, called |-> FALSE,
     timeout |-> 0, pre |-> "absent", rowPre |-> "none", same |-> TRUE,
     proxyPre |-> "absent", proxyPost |-> "absent", fault |-> "none",
     http |-> 0]

Push(log, rec) == <<log[2], rec>>

StatusOf(cont, cid) == IF cid = NullId THEN "absent" ELSE cont[cid]

\* Mutant: the call goes to the proxy container of the row.
ProxyContainerOf(row) == row.proxy_container_id

\* The container wake and hibernate look up: server.game_container_id
\* (lines 150 and 171).
GameContainerOf(row) == row.game_container_id

\* Mutant: start is called whatever the status.
AlwaysStart(status) == TRUE

\* game_container.status != "running" (line 152; line 159 of the agent).
NeedsStart(status) == status # "running"

\* Mutant: stop is called whatever the status.
AlwaysStop(status) == TRUE

\* game_container.status == "running" (line 173; line 175 of the agent).
NeedsStop(status) == status = "running"

\* DockerManager.wake_server (lines 156-167); lines 149-161 of
\* SidecarManager.wake are the same statements.  containers.get fails for a
\* container that does not exist, start fails when the engine does.
WakeContainer(cont, cid, fault) ==
    IF StatusOf(cont, cid) = "absent"
    THEN [ok |-> FALSE, called |-> FALSE, cont |-> cont]
    ELSE IF NeedsStart(cont[cid])
    THEN IF fault
         THEN [ok |-> FALSE, called |-> TRUE, cont |-> cont]
         ELSE [ok |-> TRUE, called |-> TRUE,
               cont |-> [cont EXCEPT ![cid] = "running"]]
    ELSE [ok |-> TRUE, called |-> FALSE, cont |-> cont]

\* DockerManager.hibernate_server (lines 172-183); lines 170-182 of
\* SidecarManager.hibernate are the same statements.
HibernateContainer(cont, cid, fault) ==
    IF StatusOf(cont, cid) = "absent"
    THEN [ok |-> FALSE, called |-> FALSE, cont |-> cont]
    ELSE IF NeedsStop(cont[cid])
    THEN IF fault
         THEN [ok |-> FALSE, called |-> TRUE, cont |-> cont]
         ELSE [ok |-> TRUE, called |-> TRUE,
               cont |-> [cont EXCEPT ![cid] = "exited"]]
    ELSE [ok |-> TRUE, called |-> FALSE, cont |-> cont]

\* What a call of wake or hibernate leaves in the log.
CallRec(op, mgr, id, res, row, state) ==
    [op |-> op, mgr |-> mgr, id |-> id, ok |-> res.ok, called |-> res.called,
     timeout |-> IF op = "hibernate" /\ res.called THEN STOP_TIMEOUT ELSE 0,
     pre |-> StatusOf(docker.cont, row.game_container_id),
     rowPre |-> row.state,
     same |-> (res.cont = docker.cont /\ state = row.state),
     proxyPre |-> StatusOf(docker.cont, row.proxy_container_id),
     proxyPost |-> StatusOf(res.cont, row.proxy_container_id),
     fault |-> IF res.called /\ ~res.ok THEN "engine" ELSE "none",
     http |-> 0]

\* The row of id exists and belongs to mgr.
HasRow(id, mgr) ==
    /\ server[id].mgr = mgr
    /\ server[id].state \in {"SLEEPING", "RUNNING"}

\* SidecarManager.wake (lines 142-161).
SidecarWake(id) ==
    /\ HasRow(id, "sidecar")
    /\ \E fault \in BOOLEAN :
         LET row == server[id]
             res == IF row.state = "RUNNING"
                    THEN [ok |-> TRUE, called |-> FALSE, cont |-> docker.cont]
                    ELSE WakeContainer(docker.cont, GameContainerOf(row), fault)
             state == IF res.ok THEN "RUNNING" ELSE row.state
         IN  /\ docker' = [docker EXCEPT !.cont = res.cont]
             /\ server' = [server EXCEPT ![id].state = state]
             /\ opLog' = Push(opLog, CallRec("wake", "sidecar", id, res, row, state))
    /\ UNCHANGED notOrch

\* SidecarManager.hibernate (lines 163-182).
SidecarHibernate(id) ==
    /\ HasRow(id, "sidecar")
    /\ \E fault \in BOOLEAN :
         LET row == server[id]
             res == IF row.state = "SLEEPING"
                    THEN [ok |-> TRUE, called |-> FALSE, cont |-> docker.cont]
                    ELSE HibernateContainer(docker.cont, GameContainerOf(row), fault)
             state == IF res.ok THEN "SLEEPING" ELSE row.state
         IN  /\ docker' = [docker EXCEPT !.cont = res.cont]
             /\ server' = [server EXCEPT ![id].state = state]
             /\ opLog' = Push(opLog, CallRec("hibernate", "sidecar", id, res, row, state))
    /\ UNCHANGED notOrch

\* DockerManager.wake_server (lines 153-167), called with the ids of the row.
AgentWake(id) ==
    /\ HasRow(id, "agent")
    /\ \E fault \in BOOLEAN :
         LET row == server[id]
             res == WakeContainer(docker.cont, GameContainerOf(row), fault)
         IN  /\ docker' = [docker EXCEPT !.cont = res.cont]
             /\ opLog' = Push(opLog, CallRec("wake", "agent", id, res, row, row.state))
    /\ UNCHANGED <<server, notOrch>>

\* DockerManager.hibernate_server (lines 169-183).
AgentHibernate(id) ==
    /\ HasRow(id, "agent")
    /\ \E fault \in BOOLEAN :
         LET row == server[id]
             res == HibernateContainer(docker.cont, GameContainerOf(row), fault)
         IN  /\ docker' = [docker EXCEPT !.cont = res.cont]
             /\ opLog' = Push(opLog, CallRec("hibernate", "agent", id, res, row, row.state))
    /\ UNCHANGED <<server, notOrch>>

\* The steps of deploy and of delete at which the engine can fail, in the
\* order the code takes them; "none" is a run without failure.
DeployStage == [network |-> 1, proxy |-> 2, volume |-> 3, game |-> 4, none |-> 5]

DeleteStage == [game |-> 1, proxy |-> 2, network |-> 3, volume |-> 4, none |-> 5]

DeployFaults == DOMAIN DeployStage

DeleteFaults == DOMAIN DeleteStage

\* Both containers of the server exist already (lines 66-72).
ContainersExist(cont, id) ==
    cont[<<"game", id>>] # "absent" /\ cont[<<"proxy", id>>] # "absent"

\* What an event other than wake and hibernate leaves in the log.
EventRec(op, mgr, id, ok) ==
    [NoOp EXCEPT !.op = op, !.mgr = mgr, !.id = id, !.ok = ok]

\* The step at which deploy stops: the first of the engine's failure and of
\* the name conflict (409) that run and create raise for a name in use.
DeployFault(cont, id, fault) ==
    LET conflict == IF cont[<<"proxy", id>>] # "absent" THEN "proxy"
                    ELSE IF cont[<<"game", id>>] # "absent" THEN "game"
                    ELSE "none"
    IN  IF DeployStage[fault] <= DeployStage[conflict] THEN fault ELSE conflict

\* The engine after deploy: the network, the proxy container (run), the
\* volume and the game container (create), up to the step that fails.
\* removeProxy: the proxy is removed again when the game container cannot be
\* created (line 138 of the agent).
DeployEngine(d, id, fault, removeProxy) ==
    LET done(stage) == DeployStage[fault] > DeployStage[stage]
        proxy == IF done("proxy")
                 THEN IF removeProxy /\ fault = "game" THEN "absent" ELSE "running"
                 ELSE d.cont[<<"proxy", id>>]
        game == IF done("game") THEN "created" ELSE d.cont[<<"game", id>>]
    IN  [cont |-> [d.cont EXCEPT ![<<"proxy", id>>] = proxy,
                                 ![<<"game", id>>] = game],
         net |-> IF done("network") THEN d.net \cup {id} ELSE d.net,
         vol |-> IF done("volume") THEN d.vol \cup {id} ELSE d.vol]

\* The row of a server that deploy completed (lines 130-134).
DeployedRow(mgr, id) ==
    [mgr |-> mgr, state |-> "SLEEPING",
     game_container_id |-> <<"game", id>>,
     proxy_container_id |-> <<"proxy", id>>,
     network |-> TRUE]

\* What a call of deploy leaves in the log: called says that the call ran or
\* created a container, fault is the failure the engine had in store.
DeployRec(mgr, id, ok, fault, stop, refused) ==
    [EventRec("deploy", mgr, id, ok) EXCEPT
       !.called = ~refused /\ DeployStage[stop] > DeployStage["proxy"],
       !.pre = docker.cont[<<"game", id>>],
       !.proxyPre = docker.cont[<<"proxy", id>>],
       !.rowPre = server[id].state,
       !.fault = fault]

\* deploy can be called for a new server, and again for a server whose
\* deploy failed: the row of SidecarManager is then still there, SLEEPING
\* and without container ids; the row of the API was deleted.
CanDeploy(id, mgr) ==
    \/ server[id].state = "none"
    \/ /\ server[id].mgr = mgr
       /\ server[id].game_container_id = NullId
       /\ server[id].state = IF mgr = "sidecar" THEN "SLEEPING" ELSE "deleted"

\* create_server of the dashboard (src/routers/dashboard.py, lines 62-92)
\* with SidecarManager.deploy (lines 44-140): the row is stored SLEEPING, then
\* deploy fills it in, or returns False and leaves what it had created.
SidecarDeploy(id) ==
    /\ CanDeploy(id, "sidecar")
    /\ \E fault \in DeployFaults :
         LET refused == fault # "network" /\ ContainersExist(docker.cont, id)
             stop == DeployFault(docker.cont, id, fault)
             ok == stop = "none" /\ ~refused
         IN  /\ docker' = IF refused
                          THEN [docker EXCEPT !.net = @ \cup {id}]
                          ELSE DeployEngine(docker, id, stop, FALSE)
             /\ server' = [server EXCEPT ![id] =
                             IF ok THEN DeployedRow("sidecar", id)
                             ELSE [NewRow EXCEPT !.mgr = "sidecar",
                                                 !.state = "SLEEPING"]]
             /\ opLog' = Push(opLog, DeployRec("sidecar", id, ok, fault, stop, refused))
    /\ UNCHANGED notOrch

\* create_server of the API (src/backend/app/routers/api_servers.py, lines
\* 69-112) with DockerManager.deploy_server (lines 41-151): on an error the
\* row is deleted again.
AgentDeploy(id) ==
    /\ CanDeploy(id, "agent")
    /\ \E fault \in DeployFaults :
         LET refused == fault # "network" /\ ContainersExist(docker.cont, id)
             stop == DeployFault(docker.cont, id, fault)
             ok == stop = "none" /\ ~refused
         IN  /\ docker' = IF refused
                          THEN [docker EXCEPT !.net = @ \cup {id}]
                          ELSE DeployEngine(docker, id, stop, TRUE)
             /\ server' = [server EXCEPT ![id] =
                             IF ok THEN DeployedRow("agent", id)
                             ELSE [NewRow EXCEPT !.mgr = "agent",
                                                 !.state = "deleted"]]
             /\ opLog' = Push(opLog, DeployRec("agent", id, ok, fault, stop, refused))
    /\ UNCHANGED notOrch

\* Mutant: delete removes nothing.
DeleteNothing(d, row, id, fault) == d

\* delete (lines 184-224) and delete_server (lines 185-226): remove the game
\* container, the proxy container, the network and the volume, up to the
\* step that fails.
DeleteEngine(d, row, id, fault) ==
    LET done(stage) == DeleteStage[fault] > DeleteStage[stage]
        gone(cid, stage) == cid # NullId /\ done(stage)
    IN  [cont |-> [c \in Containers |->
                     IF \/ (c = row.game_container_id /\ gone(c, "game"))
                        \/ (c = row.proxy_container_id /\ gone(c, "proxy"))
                     THEN "absent" ELSE d.cont[c]],
         net |-> IF row.network /\ done("network") THEN d.net \ {id} ELSE d.net,
         vol |-> IF done("volume") THEN d.vol \ {id} ELSE d.vol]

\* delete_server of the dashboard and of the API: the manager's delete, then
\* the row is deleted whatever the manager returned.
DeleteServer(id) ==
    /\ server[id].state \in {"SLEEPING", "RUNNING"}
    /\ \E fault \in DeleteFaults :
         /\ docker' = DeleteEngine(docker, server[id], id, fault)
         /\ server' = [server EXCEPT ![id].state = "deleted"]
         /\ opLog' = Push(opLog, [EventRec("delete", server[id].mgr, id, fault = "none")
                                     EXCEPT !.fault = fault])
    /\ UNCHANGED notOrch

\* The game process ends by itself.
GameExits(id) ==
    /\ docker.cont[<<"game", id>>] = "running"
    /\ docker' = [docker EXCEPT !.cont[<<"game", id>>] = "exited"]
    /\ opLog' = Push(opLog, EventRec("exit", "none", id, TRUE))
    /\ UNCHANGED <<server, notOrch>>

\* A container of the name is left over from an earlier installation whose
\* database is gone (ids start again at 1).
StrayContainer(kind, id) ==
    /\ server[id].state = "none"
    /\ docker.cont[<<kind, id>>] = "absent"
    /\ docker' = [docker EXCEPT !.cont[<<kind, id>>] = "exited"]
    /\ opLog' = Push(opLog, EventRec("stray", "none", id, TRUE))
    /\ UNCHANGED <<server, notOrch>>

\* The routes of the node agent (src/node-agent/app/main.py, lines 53-144).
AgentEndpoints ==
    {"deploy", "wake", "hibernate", "delete", "stats", "logs", "health"}

\* The routes declared with Depends(verify_node_secret): all but /health
\* (lines 142-144).
GuardedEndpoints == AgentEndpoints \ {"health"}

\* The X-Node-Secret header of a request that is not authorised: another
\* value, or no header.
BadSecrets == {"wrong", "absent"}

\* The names main.py imports from fastapi (line 1), and those among the
\* names of fastapi its route declarations use (lines 35-144).
FastApiImports == {"FastAPI", "HTTPException", "Request", "Header"}

FastApiNamesUsed == {"FastAPI", "HTTPException", "Request", "Header", "Depends"}

\* The module can be imported, and the agent can serve, only if every name
\* it uses is defined: a default argument is evaluated when the route is
\* declared.
AgentLoads == FastApiNamesUsed \subseteq FastApiImports

\* The status of the answer to a request that is not authorised; 0 when no
\* server answers.  Header(...) is a required parameter: 422 without it;
\* verify_node_secret (lines 35-38) raises 403 for another value.
UnauthorisedStatus(endpoint, secret) ==
    IF ~AgentLoads THEN 0
    ELSE IF endpoint \notin GuardedEndpoints THEN 200
    ELSE IF secret = "absent" THEN 422
    ELSE 403

\* A request to the node agent whose X-Node-Secret is not the shared
\* secret: no route body runs, DockerManager is not called.
AgentRequest ==
    /\ \E endpoint \in AgentEndpoints, secret \in BadSecrets :
         opLog' = Push(opLog,
                       [EventRec("request", "agent", 0, FALSE) EXCEPT
                          !.http = UnauthorisedStatus(endpoint, secret)])
    /\ UNCHANGED <<docker, server, notOrch>>

InitOrch ==
    /\ docker = NoDocker
    /\ server = [id \in Ids |-> NewRow]
    /\ opLog = <<NoOp, NoOp>>

NextOrch ==
    \/ AgentRequest
    \/ \E id \in Ids :
        \/ SidecarDeploy(id)
        \/ AgentDeploy(id)
        \/ SidecarWake(id)
        \/ SidecarHibernate(id)
        \/ AgentWake(id)
        \/ AgentHibernate(id)
        \/ DeleteServer(id)
        \/ GameExits(id)
        \/ \E kind \in {"game", "proxy"} : StrayContainer(kind, id)

---------------------------------------------------------------------------
(* Claims about the orchestrators *)

\* A wake, or a hibernate, that the server needed: its container was not in
\* the state asked for, and (SidecarManager) neither was its row.
Needed(rec) ==
    IF rec.op = "wake"
    THEN rec.pre # "running" /\ rec.rowPre # "RUNNING"
    ELSE rec.pre = "running" /\ rec.rowPre # "SLEEPING"

\* Two calls of op in succession on one server, the first successful.
Twice(op) ==
    /\ opLog[1].op = op /\ opLog[1].ok
    /\ opLog[2].op = op /\ opLog[2].id = opLog[1].id

\* C8: wake on a server whose game container runs returns success without
\* calling start; a wake right after a successful wake succeeds, calls no
\* start and changes neither the containers nor the row; and a successful
\* wake of a sleeping server has called start, so that two wakes in
\* succession issue exactly one.
C8_WakeIdempotent ==
    LET last == opLog[2] IN
    /\ (last.op = "wake" /\ last.pre = "running")
           => (last.ok /\ ~last.called)
    /\ Twice("wake") => (last.ok /\ ~last.called /\ last.same)
    /\ (last.op = "wake" /\ last.ok /\ Needed(last)) => last.called
    /\ (last.op = "wake" /\ last.called) => last.pre # "running"

\* C8 witness: a wake that started the container, then a second wake that
\* did not.
C8_Witness ==
    /\ Twice("wake")
    /\ opLog[1].called /\ opLog[1].pre = "exited"
    /\ opLog[2].ok /\ ~opLog[2].called

\* C9: hibernate on a server whose game container is stopped returns success
\* without calling stop; a hibernate right after a successful hibernate
\* succeeds, calls no stop and changes nothing; a successful hibernate of a
\* running server has called stop; and stop is called with STOP_TIMEOUT.
C9_HibernateIdempotent ==
    LET last == opLog[2] IN
    /\ (last.op = "hibernate" /\ last.pre \in {"created", "exited"})
           => (last.ok /\ ~last.called)
    /\ Twice("hibernate") => (last.ok /\ ~last.called /\ last.same)
    /\ (last.op = "hibernate" /\ last.ok /\ Needed(last)) => last.called
    /\ (last.op = "hibernate" /\ last.called)
           => (last.pre = "running" /\ last.timeout = STOP_TIMEOUT)

\* C9 witness: a hibernate that stopped the container, then a second
\* hibernate that did not.
C9_Witness ==
    /\ Twice("hibernate")
    /\ opLog[1].called /\ opLog[1].timeout = STOP_TIMEOUT
    /\ opLog[2].ok /\ ~opLog[2].called

\* The server is deployed and not deleted.
Deployed(id) ==
    /\ server[id].state \in {"SLEEPING", "RUNNING"}
    /\ server[id].proxy_container_id # NullId

\* C10: the proxy container of a deployed server is running, and no wake
\* and no hibernate changes the status of the proxy container.
C10_ProxyNeverStopped ==
    /\ \A id \in Ids :
           Deployed(id) => docker.cont[server[id].proxy_container_id] = "running"
    /\ opLog[2].op \in {"wake", "hibernate"}
           => opLog[2].proxyPost = opLog[2].proxyPre

\* C10 witness: a wake that started the game container, then a hibernate
\* that stopped it, and the proxy container is running.
C10_Witness ==
    /\ opLog[1].op = "wake" /\ opLog[1].called /\ opLog[1].ok
    /\ opLog[2].op = "hibernate" /\ opLog[2].called /\ opLog[2].ok
    /\ opLog[2].id = opLog[1].id
    /\ opLog[2].proxyPost = "running"

\* C11 (as claimed): a deploy that finds the game container or the proxy
\* container of its server already there fails and neither runs nor creates
\* a container.
C11_DeployRefusesIfEitherExists ==
    LET last == opLog[2] IN
    (last.op = "deploy" /\ (last.pre # "absent" \/ last.proxyPre # "absent"))
        => (~last.ok /\ ~last.called)

\* The engine holds nothing of server id; the public port is published by
\* the proxy container and is free once that container is gone.
NothingLeft(id) ==
    /\ docker.cont[<<"game", id>>] = "absent"
    /\ docker.cont[<<"proxy", id>>] = "absent"
    /\ id \notin docker.net
    /\ id \notin docker.vol

\* The last event is a delete of a server that deploy had completed.
DeletedBundle ==
    /\ opLog[2].op = "delete"
    /\ server[opLog[2].id].game_container_id # NullId

\* C12: after a delete without failure of a server that deploy had
\* completed, the engine has no game container, no proxy container (so no
\* published port), no network and no volume of that server.
C12_DeployThenDeleteLeavesNothing ==
    (DeletedBundle /\ opLog[2].ok) => NothingLeft(opLog[2].id)

\* C12 witness: a completed deploy, directly followed by a delete without
\* failure.
C12_Witness ==
    /\ opLog[1].op = "deploy" /\ opLog[1].ok
    /\ DeletedBundle /\ opLog[2].ok /\ opLog[2].id = opLog[1].id
    /\ NothingLeft(opLog[2].id)

\* C13 (as claimed): a failure while delete removes one resource does not
\* keep it from removing the later ones: when the game container cannot be
\* removed the proxy container is removed all the same, and when the proxy
\* container or the network cannot be removed the volume is.
C13_DeleteAttemptsAllFour ==
    LET last == opLog[2] IN
    DeletedBundle =>
        /\ last.fault = "game" => docker.cont[<<"proxy", last.id>>] = "absent"
        /\ last.fault \in {"proxy", "network"} => last.id \notin docker.vol

\* C23 (as claimed): a request to any endpoint of the node agent whose
\* X-Node-Secret is not the shared secret is answered 403, calls nothing
\* of the orchestrator and changes no container, network or volume.
C23_BadSecretAnswered403 ==
    LET last == opLog[2]
    IN  last.op = "request" =>
          /\ last.http = 403
          /\ ~last.called
          /\ last.same

\* The row is stored: create_server committed it and no route deleted it.
RowStored(id) == server[id].state \in {"SLEEPING", "RUNNING"}

\* C34 (as claimed): the bundle of a stored row is all or nothing: the ids of
\* its two containers and its network are all set or all null, and a row
\* whose deploy failed has no live container that it does not reference.
C34_BundleAllOrNothing ==
    \A id \in Ids :
        LET row == server[id] IN
        RowStored(id) =>
          /\ (row.game_container_id = NullId) = (row.proxy_container_id = NullId)
          /\ (row.game_container_id = NullId) = ~row.network
          /\ row.proxy_container_id = NullId =>
                docker.cont[<<"proxy", id>>] # "running"

\* C14 (as claimed): when a deploy on a clean engine failed at some step and
\* deploy is called again for the same server with the engine in order, the
\* second deploy succeeds.
C14_RedeployAfterFailure ==
    LET prev == opLog[1]
        last == opLog[2]
    IN  (/\ prev.op = "deploy" /\ ~prev.ok /\ prev.fault # "none"
         /\ prev.pre = "absent" /\ prev.proxyPre = "absent"
         /\ last.op = "deploy" /\ last.id = prev.id /\ last.mgr = prev.mgr
         /\ last.fault = "none")
            => last.ok

---------------------------------------------------------------------------
(* The wake path: proxy -> POST /api/webhook/wake -> wake_on_webhook ->     *)
(* NodeClient.wake_server -> POST /servers/{id}/wake of the node agent ->  *)
(* DockerManager.wake_server                                               *)
(*                                                                         *)
(* Several clients connect to the proxy of one deployed server within one  *)
(* instant: no time passes, so no hold window runs out.  wk.starts counts  *)
(* the calls of start on the game container.                               *)
(*                                                                         *)
(* pc of a client session: idle, wake (awaiting send_wake_signal), hold,   *)
(* relay (bridged), closed, aborted.                                       *)
(* The POST of a session: none, flight, then ok (200), denied (no credits) *)
(* or failed (the node agent did not wake the server).                     *)
(***************************************************************************)

WakeClients == {"c1", "c2"}

\* The server all clients connect to.
WakeServer == CHOOSE id \in Ids : TRUE

\* Query parameters the route of the node agent requires
\* (src/node-agent/app/main.py, line 76).
WakeRouteParams == {"game_container_id"}

\* Query parameters NodeClient.wake_server sends (lines 52-55): none.
NodeClientWakeParams == {}

\* FastAPI answers 422 unless every required parameter is sent.
RouteAccepts(required, sent) == required \subseteq sent

\* A deployed, sleeping server: the proxy runs, the game container is created.
InitWake ==
    wk = [sess |-> [c \in WakeClients |-> "idle"],
          post |-> [c \in WakeClients |-> "none"],
          cont |-> [x \in Containers |->
                      IF x = <<"proxy", WakeServer>> THEN "running"
                      ELSE IF x = <<"game", WakeServer>> THEN "created"
                      ELSE "absent"],
          row |-> DeployedRow("agent", WakeServer),
          credits |-> TRUE,
          starts |-> 0]

\* handle_tcp_client, lines 90-94 and 146-152: probe, then relay or wake.
WkAccept(c) ==
    /\ wk.sess[c] = "idle"
    /\ wk' = IF wk.cont[<<"game", WakeServer>>] = "running"
             THEN [wk EXCEPT !.sess[c] = "relay"]
             ELSE [wk EXCEPT !.sess[c] = "wake", !.post[c] = "flight"]
    /\ UNCHANGED notWake

\* The backend serves the POST: wake_webhook (src/routers/webhooks.py, lines
\* 15-25), wake_on_webhook (lines 117-141), NodeClient.wake_server (lines
\* 48-60) and, if the node agent accepts the request, its wake_server.
WkWebhook(c) ==
    /\ wk.post[c] = "flight"
    /\ \E fault \in BOOLEAN :
         LET accepted == RouteAccepts(WakeRouteParams, NodeClientWakeParams)
             res == IF accepted
                    THEN WakeContainer(wk.cont, GameContainerOf(wk.row), fault)
                    ELSE [ok |-> FALSE, called |-> FALSE, cont |-> wk.cont]
         IN  wk' = IF ~wk.credits
                   THEN [wk EXCEPT !.post[c] = "denied"]
                   ELSE [wk EXCEPT
                           !.post[c] = IF res.ok THEN "ok" ELSE "failed",
                           !.cont = res.cont,
                           !.row.state = IF res.ok THEN "RUNNING" ELSE @,
                           !.starts = IF res.called THEN @ + 1 ELSE @]
    /\ UNCHANGED notWake

\* send_wake_signal returns and lines 96-101 run (see EnterHold).
WkWakeReturns(c) ==
    /\ wk.sess[c] = "wake"
    /\ wk.post[c] \in {"ok", "denied", "failed"}
    /\ wk' = [wk EXCEPT !.sess[c] =
                IF WriterHasMethod("set_tcp_nodelay") THEN "hold" ELSE "closed"]
    /\ UNCHANGED notWake

\* The POST is not answered within 10 s (see WakeSignalTimesOut).
WkWakeTimesOut(c) ==
    /\ wk.sess[c] = "wake"
    /\ wk.post[c] = "flight"
    /\ wk' = [wk EXCEPT !.sess[c] = "aborted"]
    /\ UNCHANGED notWake

\* The user's credits run out or are refilled.
WkCredits ==
    /\ wk' = [wk EXCEPT !.credits = ~@]
    /\ UNCHANGED notWake

\* The game container is started or stopped outside the wake path.
WkTargetFlips ==
    /\ wk' = [wk EXCEPT !.cont[<<"game", WakeServer>>] =
                IF @ = "running" THEN "exited" ELSE "running"]
    /\ UNCHANGED notWake

NextWake ==
    \/ \E c \in WakeClients :
         \/ WkAccept(c)
         \/ WkWebhook(c)
         \/ WkWakeReturns(c)
         \/ WkWakeTimesOut(c)
    \/ WkCredits
    \/ WkTargetFlips

---------------------------------------------------------------------------
(* Claims about the wake path *)

\* C7 (as claimed): once the backend has handled a wake request of a user
\* with credits, exactly one start of the game container has been issued,
\* and no session that asked for the wake is closed or abandoned before it
\* is bridged.
C7_OneStartAllBridged ==
    \A c \in WakeClients :
        /\ wk.post[c] \in {"ok", "failed"} => wk.starts = 1
        /\ wk.sess[c] \notin {"closed", "aborted"}

---------------------------------------------------------------------------
(***************************************************************************)
(* The lifecycle controller                                                *)
(*   src/backend/app/services/lifecycle.py  (LifecycleManager)             *)
(*   src/backend/app/billing.py             (process_billing_cycle)        *)
(*   src/routers/dashboard.py, src/backend/app/routers/api_servers.py      *)
(*   src/routers/webhooks.py                                               *)
(*                                                                         *)
(* One user owns two deployed servers.  Credits and amounts are counted in *)
(* tenths of a credit, time in minutes.  life.credits, life.tx and         *)
(* life.srv are the committed rows of the database; life.bill is the pass  *)
(* of _process_billing in flight, with the objects of its session.         *)
(* life.phase is where _lifecycle_loop stands: "rest" in one of its sleeps *)
(* (lines 42 and 47), "idle" in _check_idle_servers with life.todo the     *)
(* rows still to visit, "bill" in _process_billing.                        *)
(***************************************************************************)

\* Transaction rows a user can have.
MaxTx == 2
\* The clock stops here.
MaxLifeClock == 15

\* charge_amount = 0.5 (lifecycle.py, line 93), in tenths.
CHARGE == 5
\* CREDITS_PER_MINUTE = 0.1 (billing.py, line 13), in tenths.
COST == 1
\* add_credits(user.id, 10.0, "Mock deposit") (dashboard.py, line 260).
DEPOSIT == 100
\* stats['cpu_percent'] < 5.0 (lifecycle.py, line 62).
CPU_IDLE == 5
\* timedelta(minutes=15) (lifecycle.py, line 65).
IDLE_MINUTES == 15
\* asyncio.sleep(300) between two sweeps (lifecycle.py, line 42), in minutes.
SWEEP_MINUTES == 5

\* The user has credits left for one charge.
StartCredits == CHARGE

LifeServers == {"a", "b"}

\* The rows in the order of their primary key.
ServerOrder == <<"a", "b">>

\* What the engine reports as cpu_percent of a container.
CpuReadings == {0, 5, 50}

\* self.node_client.secret and a token that differs from it.
Tokens == {"secret", "wrong"}

GameId(s) == <<"game", s>>

\* Query parameters the routes of the node agent require
\* (src/node-agent/app/main.py, lines 88 and 120).
HibernateRouteParams == {"game_container_id"}

StatsRouteParams == {"game_container_id"}

\* Query parameters NodeClient.hibernate_server (lines 66-69) and
\* NodeClient.get_server_stats (lines 94-97) send: none.
NodeClientHibernateParams == {}

NodeClientStatsParams == {}

\* NodeClient.wake_server (lines 48-60): True iff the node agent answers 2xx.
NodeWake(cont, row, fault) ==
    IF RouteAccepts(WakeRouteParams, NodeClientWakeParams)
    THEN WakeContainer(cont, GameContainerOf(row), fault)
    ELSE [ok |-> FALSE, called |-> FALSE, cont |-> cont]

\* NodeClient.hibernate_server (lines 62-74).
NodeHibernate(cont, row, fault) ==
    IF RouteAccepts(HibernateRouteParams, NodeClientHibernateParams)
    THEN HibernateContainer(cont, GameContainerOf(row), fault)
    ELSE [ok |-> FALSE, called |-> FALSE, cont |-> cont]

\* NodeClient.get_server_stats (lines 90-107): cpu_percent 0 on an HTTP error.
NodeStats(cpu) ==
    IF RouteAccepts(StatsRouteParams, NodeClientStatsParams) THEN cpu ELSE 0

\* A session of _process_billing that holds nothing.
NoPass ==
    [pc |-> "idle", todo |-> <<>>, cur |-> "none", loaded |-> FALSE,
     sess |-> 0, dirty |-> FALSE, pending |-> <<>>, rows |-> {}]

\* What the last operation did, for the sweeps and the webhook.
NoEvent ==
    [op |-> "none", s |-> "none", ok |-> FALSE, http |-> 0, reject |-> "none",
     called |-> FALSE, engine |-> FALSE, same |-> TRUE, cond |-> FALSE,
     short |-> FALSE, hibernated |-> FALSE, slept |-> FALSE]

Ev(op, s) == [NoEvent EXCEPT !.op = op, !.s = s]

HourlyCharge(amount) == [amount |-> -amount, type |-> "HOURLY_CHARGE"]

Deposit(amount) == [amount |-> amount, type |-> "DEPOSIT"]

InitLife ==
    life = [credits |-> StartCredits,
            tx |-> <<>>,
            srv |-> [s \in LifeServers |->
                       [state |-> "SLEEPING", auto_sleep |-> (s = "a"),
                        last_state_change |-> 0,
                        game_container_id |-> GameId(s)]],
            cont |-> [c \in {GameId(s) : s \in LifeServers} |-> "created"],
            clock |-> 0,
            phase |-> "rest",
            todo |-> <<>>,
            bill |-> NoPass,
            last |-> NoEvent]

\* The rows, the transactions and the containers: what an operation can
\* mutate.
LifeData(L) == <<L.credits, L.tx, L.srv, L.cont>>

\* Mutant: the time written is two sweep periods behind the clock.
StaleClock(L) == L.clock - 2 * SWEEP_MINUTES

\* datetime.utcnow(), as written to last_state_change (lifecycle.py, lines
\* 69, 88, 112 and 136).
UtcNow(L) == L.clock

\* wake_server of the dashboard (src/routers/dashboard.py, lines 135-151)
\* with SidecarManager.wake: the state is set whatever wake returned.
DashboardWake(s) ==
    /\ \E fault \in BOOLEAN :
         LET row == life.srv[s]
             res == IF row.state = "RUNNING"
                    THEN [ok |-> TRUE, called |-> FALSE, cont |-> life.cont]
                    ELSE WakeContainer(life.cont, GameContainerOf(row), fault)
         IN  life' = IF life.credits > 0
                     THEN [life EXCEPT
                             !.cont = res.cont,
                             !.srv[s].state = "RUNNING",
                             !.last = NoEvent]
                     ELSE [life EXCEPT !.last = NoEvent]
    /\ UNCHANGED notLife

\* wake_server of the API (src/backend/app/routers/api_servers.py, lines
\* 145-162).
ApiWake(s) ==
    /\ \E fault \in BOOLEAN :
         LET row == life.srv[s]
             res == NodeWake(life.cont, row, fault)
         IN  life' = IF life.credits > 0
                     THEN [life EXCEPT
                             !.cont = res.cont,
                             !.srv[s].state = IF res.ok THEN "RUNNING" ELSE @,
                             !.last = NoEvent]
                     ELSE [life EXCEPT !.last = NoEvent]
    /\ UNCHANGED notLife

\* hibernate_server of the API (api_servers.py, lines 165-182).
ApiHibernate(s) ==
    /\ \E fault \in BOOLEAN :
         LET row == life.srv[s]
             res == NodeHibernate(life.cont, row, fault)
         IN  life' = [life EXCEPT
                        !.cont = res.cont,
                        !.srv[s].state = IF res.ok THEN "SLEEPING" ELSE @,
                        !.last = NoEvent]
    /\ UNCHANGED notLife

\* hibernate_server of the dashboard (lines 154-170) with
\* SidecarManager.hibernate.
DashboardHibernate(s) ==
    /\ \E fault \in BOOLEAN :
         LET row == life.srv[s]
             res == IF row.state = "SLEEPING"
                    THEN [ok |-> TRUE, called |-> FALSE, cont |-> life.cont]
                    ELSE HibernateContainer(life.cont, GameContainerOf(row), fault)
         IN  life' = [life EXCEPT
                        !.cont = res.cont,
                        !.srv[s].state = "SLEEPING",
                        !.last = NoEvent]
    /\ UNCHANGED notLife

\* Mutant: the owner's credits are not looked at.
NoCreditTest(credits) == FALSE

\* user.credits <= 0 (lifecycle.py, line 129).
OutOfCredits(credits) == credits <= 0

\* Why wake_on_webhook returns before the wake (lines 118-131).
Rejection(sid, token, credits) ==
    IF token # "secret" THEN "token"
    ELSE IF sid \notin LifeServers THEN "server"
    ELSE IF OutOfCredits(credits) THEN "credits"
    ELSE "none"

\* wake_webhook (src/routers/webhooks.py, lines 15-25) and wake_on_webhook
\* (lifecycle.py, lines 117-141).
WebhookWake(sid, token) ==
    /\ \E fault \in BOOLEAN :
         LET why == Rejection(sid, token, life.credits)
             res == IF why = "none"
                    THEN NodeWake(life.cont, life.srv[sid], fault)
                    ELSE [ok |-> FALSE, called |-> FALSE, cont |-> life.cont]
             asked == why = "none"
             L1 == IF why = "none" /\ res.ok
                   THEN [life EXCEPT
                           !.cont = res.cont,
                           !.srv[sid].state = "RUNNING",
                           !.srv[sid].last_state_change = UtcNow(life)]
                   ELSE [life EXCEPT !.cont = res.cont]
         IN  life' = [L1 EXCEPT
                        !.last = [Ev("webhook", "none") EXCEPT
                                    !.ok = (why = "none" /\ res.ok),
                                    !.http = IF why = "none" /\ res.ok
                                             THEN 200 ELSE 400,
                                    !.reject =
                                        IF token # "secret" THEN "token"
                                        ELSE IF sid \notin LifeServers THEN "server"
                                        ELSE IF life.credits <= 0 THEN "credits"
                                        ELSE "none",
                                    !.called = asked,
                                    !.engine = res.called,
                                    !.same = (LifeData(L1) = LifeData(life))]]
    /\ UNCHANGED notLife

\* The test of _check_idle_servers on one row (lines 56-65).
IdleLongEnough(row, cpu, clock) ==
    /\ row.auto_sleep
    /\ cpu < CPU_IDLE
    /\ clock - row.last_state_change >= IDLE_MINUTES

\* _check_idle_servers (lines 49-73) on the next of the rows it selected.
IdleSweep(s) ==
    /\ life.phase = "idle"
    /\ life.todo # <<>>
    /\ s = Head(life.todo)
    /\ \E cpu \in CpuReadings, fault \in BOOLEAN :
         LET row == life.srv[s]
             idle == IdleLongEnough(row, NodeStats(cpu), life.clock)
             res == IF idle
                    THEN NodeHibernate(life.cont, row, fault)
                    ELSE [ok |-> FALSE, called |-> FALSE, cont |-> life.cont]
             L1 == IF idle /\ res.ok
                   THEN [life EXCEPT
                           !.cont = res.cont,
                           !.srv[s].state = "SLEEPING",
                           !.srv[s].last_state_change = UtcNow(life)]
                   ELSE [life EXCEPT !.cont = res.cont]
         IN  life' = [L1 EXCEPT
                        !.todo = Tail(@),
                        !.last = [Ev("idle", s) EXCEPT
                                    !.ok = res.ok, !.called = res.called,
                                    !.cond = (/\ row.auto_sleep
                                              /\ NodeStats(cpu) < 5
                                              /\ life.clock - row.last_state_change >= 15),
                                    !.slept = (/\ L1.srv[s].state = "SLEEPING"
                                               /\ L1.srv[s].last_state_change = life.clock
                                               /\ L1.cont[GameId(s)] # "running"),
                                    !.same = (LifeData(L1) = LifeData(life))]]
    /\ UNCHANGED notLife

\* The RUNNING rows among list, in its order (lines 77-79).
RECURSIVE RunningRows(_, _)
RunningRows(srv, list) ==
    IF list = <<>> THEN <<>>
    ELSE IF srv[Head(list)].state = "RUNNING"
         THEN <<Head(list)>> \o RunningRows(srv, Tail(list))
         ELSE RunningRows(srv, Tail(list))

\* session.commit() of the billing pass (lines 90 and 115): the pending
\* transactions are inserted, the changed attributes are written, and the
\* objects of the session expire.
CommitPass(L) ==
    [L EXCEPT
       !.credits = IF L.bill.dirty THEN L.bill.sess ELSE @,
       !.tx = @ \o L.bill.pending,
       !.srv = [s \in LifeServers |->
                  IF s \in L.bill.rows
                  THEN [L.srv[s] EXCEPT !.state = "SLEEPING",
                                        !.last_state_change = UtcNow(L)]
                  ELSE L.srv[s]],
       !.bill.loaded = FALSE, !.bill.dirty = FALSE,
       !.bill.pending = <<>>, !.bill.rows = {}]

\* Mutant: the charge is made whatever the balance.
AlwaysCharge(credits) == TRUE

\* user.credits >= charge_amount (line 95).
CanCharge(credits) == credits >= CHARGE

\* The loop of _process_billing (lines 81-115) from the row at the head of
\* todo up to the next await, or to the commit that ends the pass.
RECURSIVE RunBilling(_)
RunBilling(L) ==
    IF L.bill.todo = <<>>
    THEN [CommitPass(L) EXCEPT !.bill = NoPass, !.phase = "rest"]
    ELSE LET s == Head(L.bill.todo)
             credits == IF L.bill.loaded THEN L.bill.sess ELSE L.credits
             got == [L EXCEPT !.bill.loaded = TRUE, !.bill.sess = credits,
                              !.bill.todo = Tail(@), !.bill.cur = s]
         IN  IF credits <= 0
             THEN [got EXCEPT !.bill.pc = "zero"]
             ELSE IF CanCharge(credits)
             THEN RunBilling([got EXCEPT
                                !.bill.sess = credits - CHARGE,
                                !.bill.dirty = TRUE,
                                !.bill.pending = Append(@, HourlyCharge(CHARGE))])
             ELSE [got EXCEPT !.bill.pc = "short"]

\* Mutant: _process_billing is started while rows of the idle sweep wait.
SweepAnywhere(todo) == TRUE

\* await self._check_idle_servers() has returned (line 40).
SweepOver(todo) == todo = <<>>

\* _process_billing begins (lines 41 and 75-79) and runs to its first await.
BillingStart ==
    /\ life.phase = "idle"
    /\ SweepOver(life.todo)
    /\ LET todo == RunningRows(life.srv, ServerOrder)
       IN  /\ Len(life.tx) + Len(todo) <= MaxTx
           /\ life' = [RunBilling([life EXCEPT !.phase = "bill",
                                               !.bill.pc = "loop",
                                               !.bill.todo = todo])
                         EXCEPT !.last =
                                  [Ev("billing", "none") EXCEPT
                                     !.cond = (life.last.op = "idle")]]
    /\ UNCHANGED notLife

\* hibernate_server returns to the pass (lines 86-91 and 110-113), which
\* runs on to its next await.
BillingHibernateReturns ==
    /\ life.bill.pc \in {"zero", "short"}
    /\ \E fault \in BOOLEAN :
         LET s == life.bill.cur
             res == NodeHibernate(life.cont, life.srv[s], fault)
             L1 == [life EXCEPT !.cont = res.cont,
                                !.bill.rows = @ \cup {s},
                                !.bill.pc = "loop"]
             L2 == IF life.bill.pc = "zero" THEN CommitPass(L1) ELSE L1
         IN  life' = [RunBilling(L2) EXCEPT
                        !.last = [Ev("billing_hibernate", s) EXCEPT
                                    !.ok = res.ok, !.called = res.called,
                                    !.short = (life.bill.pc = "short"),
                                    !.hibernated = (res.cont[GameId(s)] # "running"),
                                    !.slept = (s \in L2.bill.rows \/ L2.srv[s].state = "SLEEPING"),
                                    !.same = (/\ L2.bill.sess = life.bill.sess
                                              /\ L2.bill.dirty = life.bill.dirty
                                              /\ L2.bill.pending = life.bill.pending)]]
    /\ UNCHANGED notLife

\* An exception while _process_billing handles a row: the database refuses
\* the commit of line 90 (sqlite3.OperationalError, "database is locked").
\* The loop of lines 81-113 has no try: the exception leaves the with block
\* of line 76, whose exit closes the session and rolls back what it had not
\* committed, and is logged by _lifecycle_loop (lines 45-47).
BillingRaises ==
    /\ life.bill.pc = "zero"
    /\ life' = [life EXCEPT
                  !.bill = NoPass,
                  !.phase = "rest",
                  !.last = [Ev("billing_error", life.bill.cur) EXCEPT
                              !.cond = (life.bill.todo # <<>>),
                              !.same = (/\ life.bill.pending = <<>>
                                        /\ ~life.bill.dirty
                                        /\ life.bill.rows = {})]]
    /\ UNCHANGED notLife

\* process_billing_cycle (billing.py, lines 44-100) over the rows in list.
\* hibernate is called with the id of the row (line 79), fails, and the
\* state is left as it was (lines 81-82).
RECURSIVE BillRows(_, _)
BillRows(L, list) ==
    IF list = <<>> THEN L
    ELSE IF L.credits >= COST
    THEN BillRows([L EXCEPT !.credits = @ - COST,
                            !.tx = Append(@, HourlyCharge(COST))],
                  Tail(list))
    ELSE BillRows([L EXCEPT !.credits = 0,
                            !.tx = Append(@, HourlyCharge(L.credits)),
                            !.last.short = TRUE,
                            !.last.s = Head(list),
                            !.last.hibernated =
                                (L.cont[GameId(Head(list))] # "running"),
                            !.last.same = FALSE],
                  Tail(list))

\* process_billing_cycle (billing.py, lines 17-107).  Line 42 imports
\* docker_manager from the main module: src/main.py defines it,
\* src/backend/app/main.py does not, and the import then fails and the
\* cycle is rolled back (lines 103-105).  The cycle has no await; it is run
\* here between two passes of _process_billing.
BillingCycle ==
    /\ life.bill.pc = "idle"
    /\ LET todo == RunningRows(life.srv, ServerOrder)
       IN  /\ todo # <<>>
           /\ Len(life.tx) + Len(todo) <= MaxTx
           /\ \E mainHasDockerManager \in BOOLEAN :
                LET L0 == [life EXCEPT !.last = Ev("cycle", "none")]
                IN  life' = IF mainHasDockerManager
                            THEN BillRows(L0, todo)
                            ELSE L0
    /\ UNCHANGED notLife

\* add_credits (lifecycle.py, lines 143-162): no await between the read and
\* the commit.
AddCredits ==
    /\ Len(life.tx) + Len(life.bill.pending) < MaxTx
    /\ life' = [life EXCEPT
                  !.credits = @ + DEPOSIT,
                  !.tx = Append(@, Deposit(DEPOSIT)),
                  !.last = NoEvent]
    /\ UNCHANGED notLife

\* The sleep of _lifecycle_loop ends (line 42) and _check_idle_servers
\* selects the RUNNING rows (lines 50-53).  After an exception the sleep is
\* of 60 s (line 47); the clock of the model moves by whole periods only.
LifeTick ==
    /\ life.phase = "rest"
    /\ life.clock + SWEEP_MINUTES <= MaxLifeClock
    /\ life' = [life EXCEPT
                  !.clock = @ + SWEEP_MINUTES,
                  !.phase = "idle",
                  !.todo = RunningRows(life.srv, ServerOrder),
                  !.last = NoEvent]
    /\ UNCHANGED notLife

NextLife ==
    \/ \E s \in LifeServers :
         \/ DashboardWake(s)
         \/ ApiWake(s)
         \/ ApiHibernate(s)
         \/ DashboardHibernate(s)
         \/ IdleSweep(s)
    \/ \E sid \in LifeServers \cup {"missing"}, token \in Tokens :
         WebhookWake(sid, token)
    \/ BillingStart
    \/ BillingHibernateReturns
    \/ BillingRaises
    \/ BillingCycle
    \/ AddCredits
    \/ LifeTick

---------------------------------------------------------------------------
(* Claims about the lifecycle controller *)

\* C15 (as claimed): the idle sweep hibernates a RUNNING server and sets it
\* to SLEEPING, with last_state_change set to the time of the sweep, if and
\* only if auto_sleep is true, the reported cpu_percent is below 5.0 and 15
\* minutes or more have passed since last_state_change; otherwise the sweep
\* leaves rows, transactions and containers as they were.
C15_IdleSweepHibernatesIff ==
    LET last == life.last
    IN  last.op = "idle" =>
          /\ last.cond <=> last.slept
          /\ ~last.cond => last.same

\* C16 (as claimed): when a billing pass (_process_billing or
\* process_billing_cycle) meets a RUNNING server whose owner has fewer
\* credits than the charge, the game container is stopped, the row is set
\* to SLEEPING, and the pass neither changes the owner's credits nor writes
\* a transaction for that server.
C16_ShortOfCreditsHibernates ==
    LET last == life.last
    IN  (last.op \in {"billing_hibernate", "cycle"} /\ last.short) =>
          /\ last.hibernated
          /\ last.slept
          /\ last.same

\* The sum of the amounts of the transaction rows.
RECURSIVE TxSum(_)
TxSum(tx) == IF tx = <<>> THEN 0 ELSE Head(tx).amount + TxSum(Tail(tx))

\* No billing pass is in flight (add_credits and process_billing_cycle
\* have no await: they are never in flight between two steps).
Quiescent == life.bill.pc = "idle"

\* C17 (as claimed): whenever no billing pass and no add_credits call is in
\* flight, the amounts of the user's transactions add up to the change of
\* the user's credits since creation, however passes and deposits
\* interleaved.
C17_TransactionsSumToCredits ==
    Quiescent => TxSum(life.tx) = life.credits - StartCredits

\* C18: in every reachable state the user's credits are at least zero, in
\* the database and in the session of a billing pass in flight.
C18_CreditsNeverNegative ==
    /\ life.credits >= 0
    /\ life.bill.loaded => life.bill.sess >= 0

\* C18, witness: a billing pass has met a balance above zero and below the
\* charge and has ended.
C18_Witness ==
    /\ life.last.op = "billing_hibernate"
    /\ life.last.short
    /\ life.credits > 0
    /\ life.credits < CHARGE
    /\ Quiescent

\* C19: when the token is not the node secret, the server does not exist or
\* the owner's credits are zero or less, wake_on_webhook returns false
\* without calling the wake of the node client, the rows, the transactions
\* and the containers are as before, and the endpoint answers 400.
C19_RejectedWebhookChangesNothing ==
    LET last == life.last
    IN  (last.op = "webhook" /\ last.reject # "none") =>
          /\ ~last.ok
          /\ ~last.called
          /\ last.same
          /\ last.http = 400

\* C19, witness: a webhook with the right token for an existing server was
\* rejected because its owner had no credits left.
C19_Witness ==
    /\ life.last.op = "webhook"
    /\ life.last.reject = "credits"
    /\ life.credits = 0
    /\ life.last.http = 400

SweepStep == life'.bill # life.bill

\* C31 (as claimed): the sweep compares the state of a row with the RUNNING
\* it read before it writes the row: a row that a user or a webhook has
\* changed meanwhile is left as that change made it.
C31_SweepDropsStaleUpdate ==
    [][\A s \in LifeServers :
         (SweepStep /\ life.srv[s].state # "RUNNING") =>
             life'.srv[s] = life.srv[s]]_vars

\* C32 (as claimed): an error while the billing sweep handles one server
\* does not abort the sweep: no selected server is left unhandled, and the
\* charges and state changes made for the servers before it are committed.
C32_ErrorDoesNotAbortSweep ==
    LET last == life.last
    IN  last.op = "billing_error" => (~last.cond /\ last.same)

\* C33: within a tick of the lifecycle loop the billing sweep begins only
\* when the idle sweep has visited every row it selected, and no step of
\* the idle sweep falls inside a billing sweep.
C33_BillingAfterIdleSweep ==
    /\ life.bill.pc # "idle" => life.phase = "bill"
    /\ life.phase = "bill" => life.todo = <<>>
    /\ life.last.op = "idle" => (life.phase = "idle" /\ life.bill = NoPass)

\* C33, witness: a billing sweep that began right after the idle sweep of
\* the tick had visited a row is waiting for a hibernate.
C33_Witness ==
    /\ life.last.op = "billing"
    /\ life.last.cond
    /\ life.phase = "bill"
    /\ life.bill.pc \in {"zero", "short"}

\* C35 (as claimed): every step that wakes a server (its row goes from
\* SLEEPING to RUNNING) sets last_state_change to the time of the wake.
C35_WakeAdvancesLastStateChange ==
    [][\A s \in LifeServers :
         (life.srv[s].state = "SLEEPING" /\ life'.srv[s].state = "RUNNING") =>
             life'.srv[s].last_state_change = UtcNow(life')]_vars

\* C36 (as claimed): a row is set to SLEEPING only after the hibernate of
\* the orchestrator succeeded: no server is recorded SLEEPING while its game
\* container is running.
C36_SleepingOnlyAfterHibernate ==
    \A s \in LifeServers :
        life.srv[s].state = "SLEEPING" => life.cont[GameId(s)] # "running"

\* The query for the stats of a server fails: the node agent answers 422 to
\* the request NodeClient.get_server_stats sends.
StatsFails == ~RouteAccepts(StatsRouteParams, NodeClientStatsParams)

\* C37 (as claimed): the idle sweep takes a server for idle only on a
\* cpu_percent that was sampled: when the query for the stats fails the
\* sweep does not find the server idle and does not ask for its hibernate.
C37_FailedStatsIsNotIdle ==
    LET last == life.last
    IN  (last.op = "idle" /\ StatsFails) => ~last.cond

\* The step is a cycle of the billing daemon (billing.py, lines 17-107).
DaemonCycle == life'.last.op = "cycle" /\ life' # life

C20_RunningRowHasRunningContainer ==
    \A s \in LifeServers :
        life.srv[s].state = "RUNNING" =>
          /\ life.srv[s].game_container_id # NullId
          /\ StatusOf(life.cont, life.srv[s].game_container_id) = "running"

\* C21: no step of the lifecycle sweeps, the webhook wake or the user's
\* wake and hibernate routes lowers the last_state_change of a server.
C21_LastStateChangeNeverDecreases ==
    [][\A s \in LifeServers :
          life'.srv[s].last_state_change >= life.srv[s].last_state_change]_vars

\* C21, witness: a billing pass has set a server to SLEEPING and written a
\* last_state_change later than the one the row had.
C21_Witness ==
    \E s \in LifeServers :
        /\ life.last.op = "billing_hibernate"
        /\ life.last.s = s
        /\ life.srv[s].state = "SLEEPING"
        /\ life.srv[s].last_state_change > 0

---------------------------------------------------------------------------
(***************************************************************************)
(* The public port of a deploy                                             *)
(*   src/node-agent/app/core/docker_manager.py, lines 73-105 and 265-271   *)
(*   (lines 74-98 and 303-309 of src/services/docker_manager.py are the    *)
(*   same statements)                                                      *)
(*                                                                         *)
(* _get_available_port binds a socket to port 0, reads the port the kernel *)
(* chose, and closes the socket; containers.run then publishes that port   *)
(* for the proxy container.  Deploys of different servers may overlap (one *)
(* per worker process of the node agent), and other processes of the host  *)
(* bind ports too.                                                         *)
(*                                                                         *)
(* pa.pc of a server: idle (no deploy yet, or deleted), probed (the port   *)
(* is chosen, containers.run not yet called), held (deployed), failed.     *)
(* pa.host: who holds a host port: "free", "other", or the server whose    *)
(* proxy container publishes it.  pa.row: public_port of the Server row,   *)
(* 0 for None.                                                             *)
(***************************************************************************)

\* Host ports the kernel hands out.
MaxPorts == 2

Ports == 1..MaxPorts

PortServers == {"p1", "p2", "p3"}

InitPort ==
    pa = [pc |-> [d \in PortServers |-> "idle"],
          probe |-> [d \in PortServers |-> 0],
          row |-> [d \in PortServers |-> 0],
          host |-> [p \in Ports |-> "free"]]

\* Mutant: the engine publishes a port whoever holds it.
AnyPort(host, p) == TRUE

\* The engine publishes a host port only if nothing holds it; otherwise
\* containers.run raises APIError (lines 90-105).
PortFree(host, p) == host[p] = "free"

\* _get_available_port (lines 265-271): the kernel picks a port no socket
\* is bound to; the socket is closed before the port is returned.
ProbePort(d) ==
    /\ pa.pc[d] \in {"idle", "failed"}
    /\ \E p \in Ports :
         /\ pa.host[p] = "free"
         /\ pa' = [pa EXCEPT !.pc[d] = "probed", !.probe[d] = p]
    /\ UNCHANGED notPort

\* containers.run with the probed port (lines 89-105) and the rest of the
\* deploy; the caller stores public_port on success.
RunProxy(d) ==
    /\ pa.pc[d] = "probed"
    /\ LET p == pa.probe[d]
       IN  pa' = IF PortFree(pa.host, p)
                 THEN [pa EXCEPT !.pc[d] = "held", !.host[p] = d, !.row[d] = p]
                 ELSE [pa EXCEPT !.pc[d] = "failed"]
    /\ UNCHANGED notPort

\* delete_server (lines 198-204) removes the proxy container; the caller
\* deletes the row.
ReleasePort(d) ==
    /\ pa.pc[d] = "held"
    /\ pa' = [pa EXCEPT !.pc[d] = "idle", !.probe[d] = 0, !.row[d] = 0,
                        !.host[pa.row[d]] = "free"]
    /\ UNCHANGED notPort

\* Another process of the host binds a free port, or closes its socket.
OtherBinds(p) ==
    /\ pa.host[p] = "free"
    /\ pa' = [pa EXCEPT !.host[p] = "other"]
    /\ UNCHANGED notPort

OtherCloses(p) ==
    /\ pa.host[p] = "other"
    /\ pa' = [pa EXCEPT !.host[p] = "free"]
    /\ UNCHANGED notPort

NextPort ==
    \/ \E d \in PortServers :
         \/ ProbePort(d)
         \/ RunProxy(d)
         \/ ReleasePort(d)
    \/ \E p \in Ports :
         \/ OtherBinds(p)
         \/ OtherCloses(p)

\* C22: no two servers that have a public_port have the same one, also
\* when their deploys overlap and probe the same port.
C22_PublicPortsDistinct ==
    \A d1, d2 \in PortServers :
        (d1 # d2 /\ pa.row[d1] # 0 /\ pa.row[d2] # 0) => pa.row[d1] # pa.row[d2]

\* C22, witness: two overlapping deploys probed the same port; one holds it
\* and the other failed at containers.run.
C22_Witness ==
    \E d1, d2 \in PortServers :
        /\ pa.pc[d1] = "held"
        /\ pa.pc[d2] = "failed"
        /\ pa.probe[d2] = pa.row[d1]

---------------------------------------------------------------------------
(* Specifications *)

Init == InitTcp /\ InitUdp /\ InitOrch /\ InitWake /\ InitLife /\ InitPort

SpecTcp == Init /\ [][NextTcp]_vars

\* The event loop runs every task that is ready: a copy loop whose read can
\* return takes its turn, and the gather of line 76 returns once both ended.
RelayFairness ==
    \A s \in Sessions :
        /\ WF_vars(ForwardCT(s))
        /\ WF_vars(ForwardTC(s))
        /\ WF_vars(RelayDone(s))

\* The POST has a timeout of 10 s (line 36): send_wake_signal returns or
\* raises.
WebhookFairness ==
    \A s \in Sessions : WF_vars(WakeSignalReturns(s) \/ WakeSignalTimesOut(s))

SpecTcpFair == SpecTcp /\ RelayFairness /\ WebhookFairness

SpecUdp == Init /\ [][NextUdp]_vars

SpecOrch == Init /\ [][NextOrch]_vars

SpecWake == Init /\ [][NextWake]_vars

SpecLife == Init /\ [][NextLife]_vars

SpecPort == Init /\ [][NextPort]_vars

Spec == SpecTcp

===========================================================================
